---- MODULE Spec2Model ----
(***************************************************************************)
(* A model of student_email_chatbot.py: VectorDatabase (chunking,          *)
(* ingestion, similarity search, persistence) and the answer_email path of *)
(* StudentEmailChatbot.                                                    *)
(*                                                                         *)
(* Text is a sequence of one-character strings.  Python slicing, rfind and *)
(* strip are modelled by what they do, negative indices included.          *)
(***************************************************************************)
EXTENDS Integers, Sequences, FiniteSets, TLC

(***************************************************************************)
(* Bounds of the model.                                                    *)
(***************************************************************************)
\* texts handed to the chunker are concatenations of at most MaxSegs segments
MaxSegs == 4
\* add_document is not called on an instance that would then hold more chunks
MaxChunks == 3
\* search_similar is called with top_k in 1..MaxTopK
MaxTopK == 3

(***************************************************************************)
(* Characters and Python string primitives.                                *)
(***************************************************************************)
\* str.isspace(): what \s matches and what strip() removes
IsSpace(c) == c \in {" ", "\t"}

\* what \w matches
WordChars ==
    {"a", "b", "2", "_", "0", "4", "5", "M", "O", "P", "T", "c", "d",
     "e", "f", "h", "i", "m", "n", "o", "r", "s", "t", "u", "y"}
IsWord(c) == c \in WordChars

\* the punctuation kept by _preprocess_text
IsPunct(c) == c \in {".", ",", "!", "?", ";", ":"}

Min(a, b) == IF a < b THEN a ELSE b
Max(a, b) == IF a > b THEN a ELSE b

\* the position a slice bound i denotes in a sequence of length n
SliceIndex(i, n) == IF i < 0 THEN Max(n + i, 0) ELSE Min(i, n)

\* t[lo:hi], 0-based, negative bounds counted from the end
PySlice(t, lo, hi) ==
    LET a == SliceIndex(lo, Len(t))
        b == SliceIndex(hi, Len(t))
    IN  IF b <= a THEN << >> ELSE SubSeq(t, a + 1, b)

\* t.rfind(' '): the 0-based index of the last space, -1 when there is none
RFind(t) ==
    LET hits == {i \in 1..Len(t) : t[i] = " "}
    IN  IF hits = {} THEN -1
        ELSE (CHOOSE i \in hits : \A j \in hits : j <= i) - 1

\* t.strip()
Strip(t) ==
    LET n == Len(t)
        leading  == Cardinality({i \in 1..n : \A j \in 1..i : IsSpace(t[j])})
        trailing == Cardinality({i \in 1..n : \A j \in i..n : IsSpace(t[j])})
    IN  IF leading = n THEN << >> ELSE SubSeq(t, leading + 1, n - trailing)

\* n copies of the character c
Rep(c, n) == [i \in 1..n |-> c]

(***************************************************************************)
(* _chunk_text, one iteration of its loop and the whole function.          *)
(***************************************************************************)
\* the filter of the return statement: len(chunk.strip()) > 50
MinChunkLen == 50

\* ChunkWindow with the fragment appended as cut, not stripped
ChunkWindowNoStrip(txt, size, ov, st) ==
    LET end0   == st + size
        chunk0 == PySlice(txt, st, end0)
        last_space == RFind(chunk0)
        cut    == end0 < Len(txt) /\ last_space > size \div 2
        chunk  == IF cut THEN PySlice(chunk0, 0, last_space) ELSE chunk0
        end    == IF cut THEN st + last_space ELSE end0
    IN  [chunk |-> chunk, end |-> end, cut |-> cut,
         appended |-> chunk, next_start |-> end - ov]

\* the window of lines 192-203 one character shorter than chunk_size
ChunkWindowShort(txt, size, ov, st) ==
    LET end0   == st + size - 1
        chunk0 == PySlice(txt, st, end0)
        last_space == RFind(chunk0)
        cut    == end0 < Len(txt) /\ last_space > size \div 2
        chunk  == IF cut THEN PySlice(chunk0, 0, last_space) ELSE chunk0
        end    == IF cut THEN st + last_space ELSE end0
    IN  [chunk |-> chunk, end |-> end, cut |-> cut,
         appended |-> Strip(chunk), next_start |-> end - ov]

\* the next window starting one character after the adjusted end
ChunkWindowSkipsEnd(txt, size, ov, st) ==
    LET end0   == st + size
        chunk0 == PySlice(txt, st, end0)
        last_space == RFind(chunk0)
        cut    == end0 < Len(txt) /\ last_space > size \div 2
        chunk  == IF cut THEN PySlice(chunk0, 0, last_space) ELSE chunk0
        end    == IF cut THEN st + last_space ELSE end0
    IN  [chunk |-> chunk, end |-> end, cut |-> cut,
         appended |-> Strip(chunk), next_start |-> end + 1 - ov]

\* the retraction test of line 198 with >= in place of >
ChunkWindowCutAtHalf(txt, size, ov, st) ==
    LET end0   == st + size
        chunk0 == PySlice(txt, st, end0)
        last_space == RFind(chunk0)
        cut    == end0 < Len(txt) /\ last_space >= size \div 2
        chunk  == IF cut THEN PySlice(chunk0, 0, last_space) ELSE chunk0
        end    == IF cut THEN st + last_space ELSE end0
    IN  [chunk |-> chunk, end |-> end, cut |-> cut,
         appended |-> Strip(chunk), next_start |-> end - ov]

\* the retraction test of line 198 accepting any space after the first
\* character of the window
ChunkWindowCutAnywhere(txt, size, ov, st) ==
    LET end0   == st + size
        chunk0 == PySlice(txt, st, end0)
        last_space == RFind(chunk0)
        cut    == end0 < Len(txt) /\ last_space > 0
        chunk  == IF cut THEN PySlice(chunk0, 0, last_space) ELSE chunk0
        end    == IF cut THEN st + last_space ELSE end0
    IN  [chunk |-> chunk, end |-> end, cut |-> cut,
         appended |-> Strip(chunk), next_start |-> end - ov]

\* lines 192-203: the window at start `st` of text `txt`, retracted to the
\* last space when the window ends before the text does and the space lies
\* after chunk_size // 2
ChunkWindow(txt, size, ov, st) ==
    LET end0   == st + size
        chunk0 == PySlice(txt, st, end0)
        last_space == RFind(chunk0)
        cut    == end0 < Len(txt) /\ last_space > size \div 2
        chunk  == IF cut THEN PySlice(chunk0, 0, last_space) ELSE chunk0
        end    == IF cut THEN st + last_space ELSE end0
    IN  [chunk |-> chunk, end |-> end, cut |-> cut,
         appended |-> Strip(chunk), next_start |-> end - ov]

\* line 208 with 70 in place of 50
FilterChunksOver70(frags) ==
    SelectSeq(frags, LAMBDA c : Len(Strip(c)) > 70)

\* line 208
FilterChunks(frags) ==
    SelectSeq(frags, LAMBDA c : Len(Strip(c)) > MinChunkLen)

\* the whole function: loop[st, frags, seen] is what the loop returns when it
\* is at its head with window start `st` and `frags` collected so far.  The
\* next window depends on `st` alone, so a loop that comes back to a start in
\* `seen` repeats for ever and the call never returns: Diverges.  So does a
\* loop at a start below 0 when overlap >= chunk_size: the next start is
\* end - overlap <= st + chunk_size - overlap <= st, below 0 again
Diverges == [returns |-> FALSE, value |-> << >>]

ChunkText(txt, size, ov) ==
    LET loop[st \in Int, frags \in Seq(Seq(STRING)), seen \in SUBSET Int] ==
            IF st >= Len(txt)
            THEN [returns |-> TRUE, value |-> FilterChunks(frags)]
            ELSE IF st \in seen \/ (st < 0 /\ ov >= size) THEN Diverges
            ELSE LET w == ChunkWindow(txt, size, ov, st)
                 IN  loop[w.next_start, Append(frags, w.appended),
                          seen \cup {st}]
    IN  loop[0, << >>, {}]

(***************************************************************************)
(* State.                                                                  *)
(***************************************************************************)
VARIABLES
    \* VectorDatabase instances, by instance
    model,              \* self.model: the embedding provider of the instance
    chunks,             \* self.chunks
    embeddings_matrix,  \* self.embeddings_matrix, None or the stacked rows
    pc,                 \* where the instance is: "idle", "saving", "chunking"
    disk,               \* the file at db_path
    last,               \* the last call that returned: op, instance, return value
    \* one call of _chunk_text, iteration by iteration
    text, chunk_size, overlap,  \* its arguments
    start,              \* the window start
    ct_chunks,          \* its local list `chunks`
    ct_seen,            \* the window starts the loop has processed
    ct_pc,              \* "idle", "loop", "done", "diverged"
    ct_result,          \* what it returned
    \* the arguments of the calls of search_similar
    query, top_k, min_similarity,
    \* StudentEmailChatbot, whose vector_db is instance 1
    conversation_history,   \* self.conversation_history
    \* the embedding provider
    encode_calls,           \* the text lists the last operation handed to
                            \* self.model.encode, call by call
    \* VectorManager (vector_operations_tentative.py)
    loaded_vectors,         \* self.loaded_vectors: name -> vector
    vector_counter          \* self.vector_counter

storeVars == <<model, chunks, embeddings_matrix, pc, disk, last>>
chunkVars ==
    <<text, chunk_size, overlap, start, ct_chunks, ct_seen, ct_pc, ct_result>>
searchVars == <<query, top_k, min_similarity>>
botVars == <<conversation_history>>
providerVars == <<encode_calls>>
managerVars == <<loaded_vectors, vector_counter>>
vars == <<model, chunks, embeddings_matrix, pc, disk, last,
          text, chunk_size, overlap, start, ct_chunks, ct_seen, ct_pc, ct_result,
          query, top_k, min_similarity, conversation_history, encode_calls,
          loaded_vectors, vector_counter>>

None == "None"

\* self.embeddings_matrix: None, or an array given by its rows
NoMatrix == [none |-> TRUE, rows |-> << >>]
Matrix(rows) == [none |-> FALSE, rows |-> rows]

Stores == {1, 2}

\* the default of __init__ and one other sentence-transformer model
DefaultModel == "all-MiniLM-L6-v2"
Providers == {DefaultModel, "other-model"}

\* VectorManager.__init__ (lines 18-20): no vector loaded, the counter at 0
NoVectors == [k \in {} |-> << >>]
ManagerFresh == loaded_vectors = NoVectors /\ vector_counter = 0

\* the provider has not been called; an operation that does not call it
ProviderIdle == encode_calls = << >>
NoEncode == encode_calls' = << >>

\* __init__: every instance is constructed empty, with the default provider
FreshStores ==
    /\ model = [s \in Stores |-> DefaultModel]
    /\ chunks = [s \in Stores |-> << >>]
    /\ embeddings_matrix = [s \in Stores |-> NoMatrix]
    /\ pc = [s \in Stores |-> "idle"]
    /\ last = [op |-> "init", store |-> 0, args |-> << >>, raised |-> FALSE,
               ret |-> None]

InitStore ==
    FreshStores /\ ProviderIdle /\ ManagerFresh /\ disk = [kind |-> "absent"]

ChunkIdle ==
    /\ text = << >> /\ chunk_size = 512 /\ overlap = 50
    /\ start = 0 /\ ct_chunks = << >> /\ ct_seen = {}
    /\ ct_pc = "idle" /\ ct_result = << >>

\* no call of search_similar: the defaults of its signature
SearchIdle == query = << >> /\ top_k = 5 /\ min_similarity = 3

\* StudentEmailChatbot.__init__ (line 236): an empty history
BotIdle == conversation_history = << >>

(***************************************************************************)
(* _preprocess_text, the embedding provider, chunk ids, the derived matrix.*)
(***************************************************************************)
\* re.sub(r'\s+', ' ', t): every maximal run of whitespace becomes one space
CollapseSpaces(t) ==
    LET marked == [i \in 1..Len(t) |->
                      IF ~IsSpace(t[i]) THEN t[i]
                      ELSE IF i < Len(t) /\ IsSpace(t[i + 1]) THEN "drop"
                      ELSE " "]
    IN  SelectSeq(marked, LAMBDA c : c # "drop")

\* re.sub(r'[^\w\s.,!?;:]', ' ', t): every other character becomes a space
BlankSpecials(t) ==
    [i \in 1..Len(t) |->
        IF IsWord(t[i]) \/ IsSpace(t[i]) \/ IsPunct(t[i]) THEN t[i] ELSE " "]

\* _preprocess_text (lines 178-184)
PreprocessText(t) == BlankSpecials(CollapseSpaces(Strip(t)))

\* get_sentence_embedding_dimension() of the provider (stand-ins for the
\* real widths: what matters is that two providers differ)
Dim(m) == IF m = DefaultModel THEN 2 ELSE 3

\* model.encode of one text: a vector of Dim(m) numbers that depends on the
\* text alone (character counts stand for the provider's features)
Features == <<"a", "b", " ">>
EncodeOne(m, t) ==
    [i \in 1..Dim(m) |-> Cardinality({k \in 1..Len(t) : t[k] = Features[i]})]

\* model.encode(chunks): one batched call, one vector per text (line 75)
Encode(m, texts) == [k \in 1..Len(texts) |-> EncodeOne(m, texts[k])]

\* hashlib.md5(content.encode()).hexdigest()[:8]: a fixed-width digest of the
\* content (a positional checksum of 12 bits stands for the 32 bits of MD5
\* the code keeps)
Alphabet ==
    <<"a", "b", "2", "_", " ", "\t", ".", ",", "!", "?", ";", ":", "@">>
    \o
    <<"0", "4", "5", "M", "O", "P", "T", "c", "d", "e", "f", "h", "i",
      "m", "n", "o", "r", "s", "t", "u", "y", "-">>
CharCode(c) == CHOOSE i \in 1..Len(Alphabet) : Alphabet[i] = c

RECURSIVE Pow31(_)
Pow31(n) ==
    IF n = 0 THEN 1
    ELSE LET h == Pow31(n \div 2)
         IN  (h * h * (IF n % 2 = 1 THEN 31 ELSE 1)) % 4096

RECURSIVE Digest(_)
Digest(t) ==
    IF Len(t) = 0 THEN 7
    ELSE IF Len(t) = 1 THEN CharCode(t[1])
    ELSE LET h == Len(t) \div 2
             right == SubSeq(t, h + 1, Len(t))
         IN  (Digest(SubSeq(t, 1, h)) * Pow31(Len(right)) + Digest(right)) % 4096

\* _generate_chunk_id (lines 210-213): f"{source_file}_{index}_{content_hash}".
\* The hash is 8 hex digits and the index is digits, so the string splits
\* back into its three parts: the triple is the id.
GenerateChunkId(content, source_file, index) ==
    <<source_file, index, Digest(content)>>

\* np.vstack(embeddings): the rows stacked; ValueError when the widths differ
VStack(embeddings) ==
    IF \E i, j \in 1..Len(embeddings) : Len(embeddings[i]) # Len(embeddings[j])
    THEN [raises |-> TRUE, value |-> NoMatrix]
    ELSE [raises |-> FALSE, value |-> Matrix(embeddings)]

\* _rebuild_embeddings_matrix (lines 215-219): the matrix it leaves, given
\* the chunk list and the matrix before
RebuildEmbeddingsMatrix(list, old) ==
    IF list # << >> THEN VStack([i \in 1..Len(list) |-> list[i].embedding])
    ELSE [raises |-> FALSE, value |-> old]

\* the records of lines 77-90 built in the reverse of the chunking order
NewChunksReversed(m, source_file, texts) ==
    LET embeddings == Encode(m, texts)
        n == Len(texts)
    IN  [i \in 1..n |->
            [id |-> GenerateChunkId(texts[n + 1 - i], source_file, n - i),
             content |-> texts[n + 1 - i],
             source_file |-> source_file,
             chunk_index |-> n - i,
             embedding |-> embeddings[n + 1 - i],
             metadata |-> [chunk_size |-> Len(texts[n + 1 - i])]]]

\* the DocumentChunk records add_document builds (lines 77-90); created_at,
\* a wall-clock reading, is left out of metadata
NewChunks(m, source_file, texts) ==
    LET embeddings == Encode(m, texts)
    IN  [i \in 1..Len(texts) |->
            [id |-> GenerateChunkId(texts[i], source_file, i - 1),
             content |-> texts[i],
             source_file |-> source_file,
             chunk_index |-> i - 1,
             embedding |-> embeddings[i],
             metadata |-> [chunk_size |-> Len(texts[i])]]]

\* get_stats (lines 169-176); nbytes counts the cells of the matrix
GetStats(s) ==
    [total_chunks |-> Len(chunks[s]),
     total_documents |->
        Cardinality({chunks[s][i].source_file : i \in 1..Len(chunks[s])}),
     embedding_dimension |-> Dim(model[s]),
     memory_usage |->
        IF embeddings_matrix[s].none THEN 0
        ELSE LET M == embeddings_matrix[s].rows
             IN  IF M = << >> THEN 0 ELSE Len(M) * Len(M[1])]

(***************************************************************************)
(* The chunker alone: _chunk_text on a text and parameters drawn from      *)
(* bounded sets.                                                           *)
(***************************************************************************)
Segments == {Rep("a", 1), Rep("a", 30), Rep("a", 55), <<" ">>}

RECURSIVE TextsOf(_)
TextsOf(n) ==
    IF n = 0 THEN {<< >>}
    ELSE LET shorter == TextsOf(n - 1)
         IN  shorter \cup {t \o g : t \in shorter, g \in Segments}

ChunkTexts == TextsOf(MaxSegs)

\* <<chunk_size, overlap>>; the last pair is the caller error overlap >= chunk_size
ChunkParams ==
    {<<60, 0>>, <<60, 10>>, <<60, 30>>, <<60, 31>>, <<60, 40>>, <<512, 50>>,
     <<60, 60>>}

ValidParams(cs, ov) == cs > 0 /\ 0 <= ov /\ ov < cs

InitChunk ==
    /\ InitStore /\ SearchIdle /\ BotIdle
    /\ text \in ChunkTexts
    /\ \E p \in ChunkParams : chunk_size = p[1] /\ overlap = p[2]
    /\ start = 0 /\ ct_chunks = << >> /\ ct_seen = {}
    /\ ct_pc = "loop" /\ ct_result = << >>

\* one pass through the body of the while loop (lines 191-206)
ChunkStep ==
    /\ ct_pc = "loop"
    /\ start < Len(text)
    /\ start \notin ct_seen
    /\ LET w == ChunkWindow(text, chunk_size, overlap, start)
       IN  /\ ct_chunks' = Append(ct_chunks, w.appended)
           /\ start' = w.next_start
    /\ ct_seen' = ct_seen \cup {start}
    /\ UNCHANGED <<text, chunk_size, overlap, ct_pc, ct_result>>
    /\ UNCHANGED <<storeVars, searchVars, botVars, providerVars, managerVars>>

\* the loop is back at a window start it has processed: from here it repeats
\* the same windows for ever, appending the same fragments again
ChunkCycle ==
    /\ ct_pc = "loop"
    /\ start < Len(text)
    /\ start \in ct_seen
    /\ ct_pc' = "diverged"
    /\ UNCHANGED <<text, chunk_size, overlap, start, ct_chunks, ct_seen, ct_result>>
    /\ UNCHANGED <<storeVars, searchVars, botVars, providerVars, managerVars>>

\* the loop is left and the filtered list returned (lines 191, 205-208)
ChunkReturn ==
    /\ ct_pc = "loop"
    /\ start >= Len(text)
    /\ ct_result' = FilterChunks(ct_chunks)
    /\ ct_pc' = "done"
    /\ UNCHANGED <<text, chunk_size, overlap, start, ct_chunks, ct_seen>>
    /\ UNCHANGED <<storeVars, searchVars, botVars, providerVars, managerVars>>

NextChunk == ChunkStep \/ ChunkCycle \/ ChunkReturn

SpecChunk == InitChunk /\ [][NextChunk]_vars

(***************************************************************************)
(* The store: VectorDatabase instances sharing the file at db_path.        *)
(***************************************************************************)
\* documents as callers hand them over, before _preprocess_text
DocA == Rep("a", 30) \o <<"\t", " ">> \o Rep("a", 25) \o <<"@">>
DocB == <<" ">> \o Rep("b", 55) \o <<" ">> \o Rep("b", 55)
DocBlank == <<" ", "\t", " ">>

\* the calls of add_document: <<content, source_file, chunk_size, overlap>>
AddCalls ==
    {<<DocA, "a.txt", 512, 50>>, <<DocB, "b.txt", 60, 10>>,
     <<DocBlank, "blank.txt", 512, 50>>}

\* the one-sentence document of the quick test (setup.py, line 213) and the
\* same sentence with "2 to 4"
QuickTestDoc ==
    <<"O", "f", "f", "i", "c", "e", " ", "h", "o", "u", "r", "s", " ", "a",
      "r", "e", " ", "T", "u", "e", "s", "d", "a", "y", "s", " ", "a", "n",
      "d", " ", "T", "h", "u", "r", "s", "d", "a", "y", "s", " ", "f", "r",
      "o", "m", " ", "2", "-", "4", " ", "P", "M", " ", "i", "n", " ", "r",
      "o", "o", "m", " ", "2", "0", "5", ".">>
OfficeHoursDoc ==
    <<"O", "f", "f", "i", "c", "e", " ", "h", "o", "u", "r", "s", " ", "a",
      "r", "e", " ", "T", "u", "e", "s", "d", "a", "y", "s", " ", "a", "n",
      "d", " ", "T", "h", "u", "r", "s", "d", "a", "y", "s", " ", "f", "r",
      "o", "m", " ", "2", " ", "t", "o", " ", "4", " ", "P", "M", " ", "i",
      "n", " ", "r", "o", "o", "m", " ", "2", "0", "5", ".">>

\* a document with a special character between two spaces
DocSpecial == Rep("a", 30) \o <<" ", "@", " ">> \o Rep("a", 25)

\* calls of add_document on single documents: the two sentences, texts at
\* the edges of the length filter and of the default window, calls whose
\* overlap is not below chunk_size, and a document with a special character
IngestCalls ==
    {<<QuickTestDoc, "test_doc.txt", 512, 50>>,
     <<OfficeHoursDoc, "office_hours.txt", 512, 50>>,
     <<Rep("a", 50), "len50.txt", 512, 50>>,
     <<Rep("a", 51), "len51.txt", 512, 50>>,
     <<Rep("a", 512), "len512.txt", 512, 50>>,
     <<Rep("a", 513), "len513.txt", 512, 50>>,
     <<DocB, "b.txt", 60, 60>>,
     <<DocB, "b.txt", 60, 70>>,
     <<DocBlank, "blank.txt", 60, 60>>,
     <<DocSpecial, "special.txt", 512, 50>>}

AllCalls == AddCalls \cup IngestCalls

\* lines 68-71 and 75-90 for each call (tables: the calls are few and the
\* functions pure)
ChunkedCall ==
    [c \in AllCalls |-> ChunkText(PreprocessText(c[1]), c[3], c[4])]
NewChunksOfCall ==
    [m \in Providers, c \in AllCalls |-> NewChunks(m, c[2], ChunkedCall[c].value)]

\* the last call: one that returned `ret`, or one that raised to its caller
Returned(op, s, args, ret) ==
    [op |-> op, store |-> s, args |-> args, raised |-> FALSE, ret |-> ret]
Raised(op, s, args) ==
    [op |-> op, store |-> s, args |-> args, raised |-> TRUE, ret |-> None]

\* __init__ (lines 41-51): a fresh instance in place of instance s
Construct(s, m) ==
    /\ pc[s] = "idle"
    /\ model' = [model EXCEPT ![s] = m]
    /\ chunks' = [chunks EXCEPT ![s] = << >>]
    /\ embeddings_matrix' = [embeddings_matrix EXCEPT ![s] = NoMatrix]
    /\ last' = Returned("init", s, << >>, None)
    /\ UNCHANGED <<pc, disk>>
    /\ UNCHANGED <<chunkVars, searchVars, botVars, managerVars>>
    /\ NoEncode

\* add_document that also pickles the store to the file when it returns
AddDocumentAutosave(s, content, source_file, cs, ov) ==
    LET chunked == ChunkedCall[<<content, source_file, cs, ov>>]
        texts   == chunked.value
    IN  /\ pc[s] = "idle"
        /\ chunked.returns
        /\ Len(chunks[s]) + Len(texts) <= MaxChunks
        /\ LET new == NewChunksOfCall[model[s], <<content, source_file, cs, ov>>]
               all == chunks[s] \o new
               M   == RebuildEmbeddingsMatrix(all, embeddings_matrix[s])
               args == <<source_file, cs, ov>>
           IN  /\ chunks' = [chunks EXCEPT ![s] = all]
               /\ IF M.raises
                  THEN /\ UNCHANGED <<embeddings_matrix, disk>>
                       /\ last' = Raised("add_document", s, args)
                  ELSE /\ embeddings_matrix' =
                              [embeddings_matrix EXCEPT ![s] = M.value]
                       /\ disk' = [kind |-> "pickle",
                                   data |-> [chunks |-> all,
                                             embeddings_matrix |-> M.value,
                                             model_name |-> Dim(model[s])]]
                       /\ last' = Returned("add_document", s, args,
                                           [i \in 1..Len(new) |-> new[i].id])
        /\ UNCHANGED <<model, pc>>
        /\ UNCHANGED <<chunkVars, searchVars, botVars, managerVars>>
        /\ encode_calls' = <<texts>>

\* add_document with one encode call per fragment
AddDocumentPerFragment(s, content, source_file, cs, ov) ==
    LET chunked == ChunkedCall[<<content, source_file, cs, ov>>]
        texts   == chunked.value
    IN  /\ pc[s] = "idle"
        /\ chunked.returns
        /\ Len(chunks[s]) + Len(texts) <= MaxChunks
        /\ LET new == NewChunksOfCall[model[s], <<content, source_file, cs, ov>>]
               all == chunks[s] \o new
               M   == RebuildEmbeddingsMatrix(all, embeddings_matrix[s])
               args == <<source_file, cs, ov>>
           IN  /\ chunks' = [chunks EXCEPT ![s] = all]
               /\ IF M.raises
                  THEN /\ UNCHANGED embeddings_matrix
                       /\ last' = Raised("add_document", s, args)
                  ELSE /\ embeddings_matrix' =
                              [embeddings_matrix EXCEPT ![s] = M.value]
                       /\ last' = Returned("add_document", s, args,
                                           [i \in 1..Len(new) |-> new[i].id])
        /\ UNCHANGED <<model, pc, disk>>
        /\ UNCHANGED <<chunkVars, searchVars, botVars, managerVars>>
        /\ encode_calls' = [k \in 1..Len(texts) |-> <<texts[k]>>]

\* add_document (lines 53-99) when _chunk_text returns: preprocess, chunk,
\* one encode call on the list of fragments, append the records, rebuild the
\* matrix.  np.vstack raises
\* after the records are appended when the rows differ in width.
AddDocument(s, content, source_file, cs, ov) ==
    LET chunked == ChunkedCall[<<content, source_file, cs, ov>>]
        texts   == chunked.value
    IN  /\ pc[s] = "idle"
        /\ chunked.returns
        /\ Len(chunks[s]) + Len(texts) <= MaxChunks
        /\ LET new == NewChunksOfCall[model[s], <<content, source_file, cs, ov>>]
               all == chunks[s] \o new
               M   == RebuildEmbeddingsMatrix(all, embeddings_matrix[s])
               args == <<source_file, cs, ov>>
           IN  /\ chunks' = [chunks EXCEPT ![s] = all]
               /\ IF M.raises
                  THEN /\ UNCHANGED embeddings_matrix
                       /\ last' = Raised("add_document", s, args)
                  ELSE /\ embeddings_matrix' =
                              [embeddings_matrix EXCEPT ![s] = M.value]
                       /\ last' = Returned("add_document", s, args,
                                           [i \in 1..Len(new) |-> new[i].id])
        /\ UNCHANGED <<model, pc, disk>>
        /\ UNCHANGED <<chunkVars, searchVars, botVars, managerVars>>
        /\ encode_calls' = <<texts>>

\* add_document (lines 53-71) when the loop of _chunk_text never exits: the
\* call has preprocessed the text and stays in the loop, appending to its
\* local list; nothing of the instance changes and the call does not return
AddDocumentDiverges(s, content, source_file, cs, ov) ==
    /\ pc[s] = "idle"
    /\ ~ChunkedCall[<<content, source_file, cs, ov>>].returns
    /\ pc' = [pc EXCEPT ![s] = "chunking"]
    /\ UNCHANGED <<model, chunks, embeddings_matrix, disk, last>>
    /\ UNCHANGED <<chunkVars, searchVars, botVars, providerVars, managerVars>>

\* the provider called inside the loop, failing after the records were
\* appended
AddDocumentEncodeFailsLate(s, content, source_file, cs, ov) ==
    LET chunked == ChunkedCall[<<content, source_file, cs, ov>>]
    IN  /\ pc[s] = "idle"
        /\ chunked.returns
        /\ chunks' = [chunks EXCEPT ![s] =
              @ \o NewChunksOfCall[model[s], <<content, source_file, cs, ov>>]]
        /\ encode_calls' = <<chunked.value>>
        /\ last' = Raised("add_document", s, <<source_file, cs, ov>>)
        /\ UNCHANGED <<model, embeddings_matrix, pc, disk>>
        /\ UNCHANGED <<chunkVars, searchVars, botVars, managerVars>>

\* add_document (lines 53-75) when self.model.encode(chunks) raises: the
\* text was preprocessed and chunked, nothing of the instance was touched,
\* and the exception leaves add_document, which has no handler
AddDocumentEncodeFails(s, content, source_file, cs, ov) ==
    LET chunked == ChunkedCall[<<content, source_file, cs, ov>>]
    IN  /\ pc[s] = "idle"
        /\ chunked.returns
        /\ encode_calls' = <<chunked.value>>
        /\ last' = Raised("add_document", s, <<source_file, cs, ov>>)
        /\ UNCHANGED <<model, chunks, embeddings_matrix, pc, disk>>
        /\ UNCHANGED <<chunkVars, searchVars, botVars, managerVars>>

\* the dict of lines 139-143 with None in place of the matrix
ArtifactWithoutMatrix(s) ==
    [kind |-> "pickle",
     data |-> [chunks |-> chunks[s],
               embeddings_matrix |-> NoMatrix,
               model_name |-> Dim(model[s])]]

\* the dict save_database pickles (lines 139-143); the key model_name holds
\* the provider's dimension
Artifact(s) ==
    [kind |-> "pickle",
     data |-> [chunks |-> chunks[s],
               embeddings_matrix |-> embeddings_matrix[s],
               model_name |-> Dim(model[s])]]

\* save_database, first half (lines 137-138): open(save_path, 'wb') truncates
\* the file; when open fails the call returns False
SaveOpen(s, ok) ==
    /\ pc[s] = "idle"
    /\ IF ok
       THEN /\ disk' = [kind |-> "partial"]
            /\ pc' = [pc EXCEPT ![s] = "saving"]
            /\ UNCHANGED <<last, encode_calls>>
       ELSE /\ last' = Returned("save_database", s, << >>, FALSE)
            /\ NoEncode
            /\ UNCHANGED <<disk, pc>>
    /\ UNCHANGED <<model, chunks, embeddings_matrix>>
    /\ UNCHANGED <<chunkVars, searchVars, botVars, managerVars>>

\* lines 139-148 without the except clause: a failed write raises
SaveDumpRaises(s, ok) ==
    /\ pc[s] = "saving"
    /\ pc' = [pc EXCEPT ![s] = "idle"]
    /\ IF ok
       THEN /\ disk' = Artifact(s)
            /\ last' = Returned("save_database", s, << >>, TRUE)
       ELSE /\ disk' = [kind |-> "partial"]
            /\ last' = Raised("save_database", s, << >>)
    /\ UNCHANGED <<model, chunks, embeddings_matrix>>
    /\ UNCHANGED <<chunkVars, searchVars, botVars, managerVars>>
    /\ NoEncode

\* save_database, second half (lines 139-148): pickle.dump writes the dict and
\* the call returns True; when the write fails the file stays as far as it
\* was written and the call returns False
SaveDump(s, ok) ==
    /\ pc[s] = "saving"
    /\ pc' = [pc EXCEPT ![s] = "idle"]
    /\ IF ok
       THEN /\ disk' = Artifact(s)
            /\ last' = Returned("save_database", s, << >>, TRUE)
       ELSE /\ disk' = [kind |-> "partial"]
            /\ last' = Returned("save_database", s, << >>, FALSE)
    /\ UNCHANGED <<model, chunks, embeddings_matrix>>
    /\ UNCHANGED <<chunkVars, searchVars, botVars, managerVars>>
    /\ NoEncode

HasKey(d, k) == k \in DOMAIN d

\* load_database (lines 150-167).  readable: whether open(load_path, 'rb')
\* succeeds.  The two assignments are made in order, so a dict without
\* 'embeddings_matrix' has replaced self.chunks when the KeyError is caught.
LoadDatabase(s, readable) ==
    /\ pc[s] = "idle"
    /\ LET unpickled == disk.kind = "pickle"
           data == disk.data
       IN  IF disk.kind = "absent" \/ ~readable \/ ~unpickled
              \/ ~HasKey(data, "chunks")
           THEN /\ UNCHANGED <<chunks, embeddings_matrix>>
                /\ last' = Returned("load_database", s, << >>, FALSE)
           ELSE IF ~HasKey(data, "embeddings_matrix")
           THEN /\ chunks' = [chunks EXCEPT ![s] = data.chunks]
                /\ UNCHANGED embeddings_matrix
                /\ last' = Returned("load_database", s, << >>, FALSE)
           ELSE /\ chunks' = [chunks EXCEPT ![s] = data.chunks]
                /\ embeddings_matrix' =
                      [embeddings_matrix EXCEPT ![s] = data.embeddings_matrix]
                /\ last' = Returned("load_database", s, << >>, TRUE)
    /\ UNCHANGED <<model, pc, disk>>
    /\ UNCHANGED <<chunkVars, searchVars, botVars, managerVars>>
    /\ NoEncode

\* what save_database of an instance with another provider leaves on disk
\* after add_document(DocA, "a.txt")
ForeignArtifact ==
    LET cs == NewChunks("other-model", "a.txt",
                        ChunkText(PreprocessText(DocA), 512, 50).value)
    IN  [kind |-> "pickle",
         data |-> [chunks |-> cs,
                   embeddings_matrix |->
                       Matrix([i \in 1..Len(cs) |-> cs[i].embedding]),
                   model_name |-> Dim("other-model")]]

\* a pickled dict like the one save_database writes, without the key k
Without(artifact, k) ==
    [artifact EXCEPT !.data =
        [x \in DOMAIN artifact.data \ {k} |-> artifact.data[x]]]

\* what an instance with the default provider saves after
\* add_document(DocB, "b.txt", 60, 10)
SavedB ==
    LET cs == NewChunks(DefaultModel, "b.txt",
                        ChunkText(PreprocessText(DocB), 60, 10).value)
    IN  [kind |-> "pickle",
         data |-> [chunks |-> cs,
                   embeddings_matrix |->
                       Matrix([i \in 1..Len(cs) |-> cs[i].embedding]),
                   model_name |-> Dim(DefaultModel)]]

\* the file changed from outside the program: removed, overwritten with
\* something that is no pickle, with a pickled dict that lacks a key, or by
\* an instance of the program that uses another provider
ExternalFile(what) ==
    CASE what = "absent" -> [kind |-> "absent"]
      [] what = "garbage" -> [kind |-> "garbage"]
      [] what = "no chunks" -> Without(SavedB, "chunks")
      [] what = "no embeddings_matrix" -> Without(SavedB, "embeddings_matrix")
      [] what = "foreign" -> ForeignArtifact

ExternalWrites ==
    {"absent", "garbage", "no chunks", "no embeddings_matrix", "foreign"}

ExternalWrite(what) ==
    /\ \A s \in Stores : pc[s] = "idle"
    /\ disk # ExternalFile(what)
    /\ disk' = ExternalFile(what)
    /\ UNCHANGED <<model, chunks, embeddings_matrix, pc, last>>
    /\ UNCHANGED <<chunkVars, searchVars, botVars, providerVars, managerVars>>

Init == InitStore /\ ChunkIdle /\ SearchIdle /\ BotIdle

Next ==
    \/ \E s \in Stores : Construct(s, DefaultModel)
    \/ \E s \in Stores, c \in AddCalls : AddDocument(s, c[1], c[2], c[3], c[4])
    \/ \E s \in Stores, ok \in BOOLEAN : SaveOpen(s, ok)
    \/ \E s \in Stores, ok \in BOOLEAN : SaveDump(s, ok)
    \/ \E s \in Stores, readable \in BOOLEAN : LoadDatabase(s, readable)
    \/ \E what \in ExternalWrites : ExternalWrite(what)

Spec == Init /\ [][Next]_vars

(***************************************************************************)
(* search_similar.                                                         *)
(***************************************************************************)
\* The embedding of the query and sklearn's cosine_similarity are outside the
\* repository.  A query is given by the score it has against each embedding:
\* rows that are equal get equal scores.  Scores and thresholds are tenths.
Scores == {2, 5, 9}
Thresholds == {0, 3, 10}

\* the embeddings the calls of AddCalls produce under the default provider
KnownRows ==
    UNION {{NewChunksOfCall[DefaultModel, c][i].embedding :
                i \in 1..Len(NewChunksOfCall[DefaultModel, c])} : c \in AddCalls}

Queries == [KnownRows -> Scores]

\* cosine_similarity(query_embedding, self.embeddings_matrix)[0] (line 121)
Similarities(q, M) == [i \in 1..Len(M.rows) |-> q[M.rows[i]]]

\* the orders of the indices 1..n, for each n a store can hold
IndexOrders ==
    [n \in 0..MaxChunks |->
        {p \in [1..n -> 1..n] : \A i, j \in 1..n : i # j => p[i] # p[j]}]

\* np.argsort(similarities): the index orders that sort the scores ascending.
\* The default sort kind is not stable, so the order of equal scores is any.
ArgSorts(sims) ==
    {p \in IndexOrders[Len(sims)] :
        \A i \in 1..Len(sims) - 1 : sims[p[i]] <= sims[p[i + 1]]}

\* order[:k], the reversal of line 124 left out
TopKAscending(order, k) ==
    [i \in 1..(IF k < Len(order) THEN k ELSE Len(order)) |-> order[i]]

\* order[::-1][:k] (line 124), for k > 0
TopK(order, k) ==
    LET n == Len(order)
    IN  [i \in 1..(IF k < n THEN k ELSE n) |-> order[n + 1 - i]]

\* lines 126-132 with the test of line 129 left out
CollectAll(list, sims, indices, threshold) ==
    [i \in 1..Len(indices) |->
        [chunk |-> list[indices[i]], index |-> indices[i],
         score |-> sims[indices[i]]]]

\* lines 126-132: the (chunk, score) pairs of the chunks at `indices` whose
\* score reaches the threshold; `index` is the place of the chunk in self.chunks
Collect(list, sims, indices, threshold) ==
    LET kept == SelectSeq(indices, LAMBDA idx : sims[idx] >= threshold)
    IN  [i \in 1..Len(kept) |->
            [chunk |-> list[kept[i]], index |-> kept[i], score |-> sims[kept[i]]]]

\* search_similar without the test of lines 114-115: cosine_similarity
\* raises on a matrix that is None
SearchSimilarUnguarded(s) ==
    /\ pc[s] = "idle"
    /\ IF embeddings_matrix[s].none
       THEN last' = Raised("search_similar", s, << >>)
       ELSE LET sims == Similarities(query, embeddings_matrix[s])
            IN  \E order \in ArgSorts(sims) :
                    last' = Returned("search_similar", s, sims,
                                     Collect(chunks[s], sims, TopK(order, top_k),
                                             min_similarity))
    /\ UNCHANGED <<model, chunks, embeddings_matrix, pc, disk>>
    /\ UNCHANGED <<chunkVars, searchVars, botVars, managerVars>>
    /\ encode_calls' = <<<<query>>>>

\* search_similar(query, top_k, min_similarity) (lines 101-132) on a store
\* whose matrix has a row per chunk
SearchSimilar(s) ==
    /\ pc[s] = "idle"
    /\ IF chunks[s] = << >> \/ embeddings_matrix[s].none
       THEN last' = Returned("search_similar", s, << >>, << >>)
       ELSE LET sims == Similarities(query, embeddings_matrix[s])
            IN  \E order \in ArgSorts(sims) :
                    last' = Returned("search_similar", s, sims,
                                     Collect(chunks[s], sims, TopK(order, top_k),
                                             min_similarity))
    /\ UNCHANGED <<model, chunks, embeddings_matrix, pc, disk>>
    /\ UNCHANGED <<chunkVars, searchVars, botVars, managerVars>>
    /\ encode_calls' = IF chunks[s] = << >> \/ embeddings_matrix[s].none
                       THEN << >> ELSE <<<<query>>>>

\* the arguments of search_similar are drawn once; the store starts empty
InitSearch ==
    /\ InitStore /\ ChunkIdle
    /\ query \in Queries
    /\ top_k \in 1..MaxTopK
    /\ min_similarity \in Thresholds
    /\ BotIdle

NextSearch ==
    \/ \E c \in AddCalls : AddDocument(1, c[1], c[2], c[3], c[4])
    \/ SearchSimilar(1)
    \/ SaveOpen(1, TRUE)
    \/ SaveDump(1, TRUE)
    \/ LoadDatabase(1, TRUE)

SpecSearch == InitSearch /\ [][NextSearch]_vars

(***************************************************************************)
(* One store ingesting single documents.                                   *)
(***************************************************************************)
NextIngest ==
    \/ Construct(1, DefaultModel)
    \/ \E c \in IngestCalls : AddDocument(1, c[1], c[2], c[3], c[4])
    \/ \E c \in IngestCalls : AddDocumentDiverges(1, c[1], c[2], c[3], c[4])
    \/ \E c \in IngestCalls : AddDocumentEncodeFails(1, c[1], c[2], c[3], c[4])

SpecIngest == Init /\ [][NextIngest]_vars

(***************************************************************************)
(* StudentEmailChatbot: __init__, _extract_question, answer_email.         *)
(***************************************************************************)
\* answer_email fills conversation_history with up to MaxHistory entries
MaxHistory == 2

\* str.lower() on the capitals of the texts used here
Lower(c) ==
    CASE c = "W" -> "w" [] c = "O" -> "o" [] c = "T" -> "t"
      [] c = "P" -> "p" [] c = "M" -> "m" [] OTHER -> c

\* w in t, for strings
Contains(t, w) ==
    \E i \in 1..(Len(t) - Len(w) + 1) : SubSeq(t, i, i + Len(w) - 1) = w

\* the k-th smallest element of a set of numbers
Nth(S, k) == CHOOSE x \in S : Cardinality({y \in S : y < x}) = k - 1

\* re.split(r'[.!?]+', t): the pieces between the maximal runs of . ! ?,
\* empty pieces at the ends included
SplitSentences(t) ==
    LET n == Len(t)
        IsSep(i) == t[i] \in {".", "!", "?"}
        runStarts == {i \in 1..n : IsSep(i) /\ (i = 1 \/ ~IsSep(i - 1))}
        runEnds   == {i \in 1..n : IsSep(i) /\ (i = n \/ ~IsSep(i + 1))}
        r == Cardinality(runStarts)
    IN  [k \in 1..(r + 1) |->
            SubSeq(t, IF k = 1 THEN 1 ELSE Nth(runEnds, k - 1) + 1,
                      IF k = r + 1 THEN n ELSE Nth(runStarts, k) - 1)]

QuestionWords ==
    {<<"h", "o", "w">>, <<"w", "h", "a", "t">>, <<"w", "h", "e", "n">>,
     <<"w", "h", "e", "r", "e">>, <<"w", "h", "y">>, <<"c", "a", "n">>,
     <<"c", "o", "u", "l", "d">>, <<"w", "o", "u", "l", "d">>}

\* _extract_question (lines 347-359)
ExtractQuestion(email_content) ==
    LET sentences == SplitSentences(email_content)
        lower(t) == [i \in 1..Len(t) |-> Lower(t[i])]
        asks(t) == \/ Contains(t, <<"?">>)
                   \/ \E w \in QuestionWords : Contains(lower(t), w)
        questions == SelectSeq(sentences, asks)
        significant == SelectSeq(sentences, LAMBDA t : Len(Strip(t)) > 20)
    IN  IF questions # << >> THEN Strip(questions[1])
        ELSE IF significant # << >> THEN Strip(significant[1])
        ELSE PySlice(email_content, 0, 200)

\* the string answer_email returns from its except clause (line 321)
Apology ==
    <<"I", " ", "a", "p", "o", "l", "o", "g", "i", "z", "e", ",", " ", "b",
      "u", "t", " ", "I", "'", "m", " ", "h", "a", "v", "i", "n", "g", " ",
      "t", "r", "o", "u", "b", "l", "e", " ", "p", "r", "o", "c", "e", "s",
      "s", "i", "n", "g", " ", "y", "o", "u", "r", " ", "r", "e", "q", "u",
      "e", "s", "t", " ", "r", "i", "g", "h", "t", " ", "n", "o", "w", ".",
      " ", "P", "l", "e", "a", "s", "e", " ", "t", "r", "y", " ", "a", "g",
      "a", "i", "n", " ", "l", "a", "t", "e", "r", " ", "o", "r", " ", "c",
      "o", "n", "t", "a", "c", "t", " ", "s", "u", "p", "p", "o", "r", "t",
      " ", "d", "i", "r", "e", "c", "t", "l", "y", ".">>

\* what search_similar(question, top_k=k) does on store s in any state of the
\* store: cosine_similarity raises ValueError when the rows are not as wide
\* as the query embedding, and self.chunks[idx] raises IndexError when a row
\* that reaches the threshold has no chunk
SearchOutcomes(s, q, k, threshold) ==
    IF chunks[s] = << >> \/ embeddings_matrix[s].none
    THEN {[raised |-> FALSE, ret |-> << >>]}
    ELSE IF \E i \in 1..Len(embeddings_matrix[s].rows) :
               Len(embeddings_matrix[s].rows[i]) # Dim(model[s])
    THEN {[raised |-> TRUE, ret |-> << >>]}
    ELSE LET sims == Similarities(q, embeddings_matrix[s])
         IN  {LET indices == TopK(order, k)
              IN  IF \E i \in 1..Len(indices) :
                        /\ sims[indices[i]] >= threshold
                        /\ indices[i] > Len(chunks[s])
                  THEN [raised |-> TRUE, ret |-> << >>]
                  ELSE [raised |-> FALSE,
                        ret |-> Collect(chunks[s], sims, indices, threshold)]
              : order \in ArgSorts(sims)}

\* the student emails answer_email is called with
Emails ==
    {<<"W", "h", "e", "n", " ", "i", "s", " ", "l", "a", "b", "?">>,
     <<"h", "i", ".", " ", "o", "k">>,
     Rep("a", 21) \o <<".">>,
     << >>}

\* line 284, question = self._extract_question(email_content), by email
QuestionOf == [e \in Emails |-> ExtractQuestion(e)]

\* the scores the question has against the stored rows
BotQueries == {[r \in KnownRows |-> v] : v \in {2, 9}}

\* openai.ChatCompletion.create (lines 296-304) and the read of line 306: the
\* call raises, the response has no choices, its message has no content
\* (None has no strip), or it has a message with text
Completions ==
    {[kind |-> "raises", content |-> << >>],
     [kind |-> "no choices", content |-> << >>],
     [kind |-> "no content", content |-> << >>],
     [kind |-> "message", content |-> <<" ", "O", "k", ".", " ">>]}

\* answer_email without its except clause: a failure leaves the call
AnswerEmailPropagates(email_content, use_context, q, completion) ==
    LET question == QuestionOf[email_content]
        searches == use_context /\ question # << >>
        args == <<email_content, use_context, completion.kind>>
    IN  /\ pc[1] = "idle"
        /\ last.op # "init"
        /\ Len(conversation_history) < MaxHistory
        /\ \E found \in (IF searches THEN SearchOutcomes(1, q, 3, 3)
                         ELSE {[raised |-> FALSE, ret |-> << >>]}) :
              IF found.raised \/ completion.kind # "message"
              THEN /\ last' = Raised("answer_email", 1, args)
                   /\ UNCHANGED conversation_history
              ELSE LET answer == Strip(completion.content)
                   IN  /\ conversation_history' =
                            Append(conversation_history,
                                   [email |-> email_content,
                                    question |-> question,
                                    answer |-> answer,
                                    context_used |-> Len(found.ret) > 0])
                       /\ last' = Returned("answer_email", 1, args, answer)
        /\ encode_calls' =
              IF searches /\ chunks[1] # << >> /\ ~embeddings_matrix[1].none
              THEN <<<<question>>>> ELSE << >>
        /\ UNCHANGED <<model, chunks, embeddings_matrix, pc, disk>>
        /\ UNCHANGED <<chunkVars, searchVars, managerVars>>

\* answer_email with the history entry written in the except clause too
AnswerEmailRecordsFailures(email_content, use_context, q, completion) ==
    LET question == QuestionOf[email_content]
        searches == use_context /\ question # << >>
        args == <<email_content, use_context, completion.kind>>
    IN  /\ pc[1] = "idle"
        /\ last.op # "init"
        /\ Len(conversation_history) < MaxHistory
        /\ \E found \in (IF searches THEN SearchOutcomes(1, q, 3, 3)
                         ELSE {[raised |-> FALSE, ret |-> << >>]}) :
              IF found.raised \/ completion.kind # "message"
              THEN /\ last' = Returned("answer_email", 1, args, Apology)
                   /\ conversation_history' =
                         Append(conversation_history,
                                [email |-> email_content,
                                 question |-> question,
                                 answer |-> Apology,
                                 context_used |-> FALSE])
              ELSE LET answer == Strip(completion.content)
                   IN  /\ conversation_history' =
                            Append(conversation_history,
                                   [email |-> email_content,
                                    question |-> question,
                                    answer |-> answer,
                                    context_used |-> Len(found.ret) > 0])
                       /\ last' = Returned("answer_email", 1, args, answer)
        /\ encode_calls' =
              IF searches /\ chunks[1] # << >> /\ ~embeddings_matrix[1].none
              THEN <<<<question>>>> ELSE << >>
        /\ UNCHANGED <<model, chunks, embeddings_matrix, pc, disk>>
        /\ UNCHANGED <<chunkVars, searchVars, managerVars>>

\* answer_email (lines 271-321) on the chatbot whose vector_db is store 1.
\* The prompt is built from the email, the question and the context and is
\* read by the completion call alone; the timestamp of the history entry, a
\* wall-clock reading, is left out.
AnswerEmail(email_content, use_context, q, completion) ==
    LET question == QuestionOf[email_content]
        searches == use_context /\ question # << >>
        args == <<email_content, use_context, completion.kind>>
    IN  /\ pc[1] = "idle"
        /\ last.op # "init"
        /\ Len(conversation_history) < MaxHistory
        /\ \E found \in (IF searches THEN SearchOutcomes(1, q, 3, 3)
                         ELSE {[raised |-> FALSE, ret |-> << >>]}) :
              IF found.raised \/ completion.kind # "message"
              THEN /\ last' = Returned("answer_email", 1, args, Apology)
                   /\ UNCHANGED conversation_history
              ELSE LET answer == Strip(completion.content)
                   IN  /\ conversation_history' =
                            Append(conversation_history,
                                   [email |-> email_content,
                                    question |-> question,
                                    answer |-> answer,
                                    context_used |-> Len(found.ret) > 0])
                       /\ last' = Returned("answer_email", 1, args, answer)
        /\ encode_calls' =
              IF searches /\ chunks[1] # << >> /\ ~embeddings_matrix[1].none
              THEN <<<<question>>>> ELSE << >>
        /\ UNCHANGED <<model, chunks, embeddings_matrix, pc, disk>>
        /\ UNCHANGED <<chunkVars, searchVars, managerVars>>

\* the files StudentEmailChatbot.__init__ may find at vector_db.pkl
BotFiles == {ExternalFile(what) : what \in ExternalWrites} \cup {SavedB}

\* StudentEmailChatbot.__init__ before its last line: a fresh VectorDatabase
\* and an empty history
InitBot ==
    /\ FreshStores /\ ProviderIdle /\ ManagerFresh
    /\ ChunkIdle /\ SearchIdle /\ BotIdle
    /\ disk \in BotFiles

\* the last line of __init__ (line 239): self.vector_db.load_database()
BotLoad == last.op = "init" /\ LoadDatabase(1, TRUE)

NextBot ==
    \/ BotLoad
    \/ \E e \in Emails, u \in BOOLEAN, q \in BotQueries, c \in Completions :
          AnswerEmail(e, u, q, c)

SpecBot == InitBot /\ [][NextBot]_vars

\* the chatbot answering emails with completions whose text is the model's:
\* any text, the text of the apology included
HistoryEmails == {e \in Emails : Len(e) \in {0, 12}}
HistoryCompletions ==
    {c \in Completions : c.kind \in {"raises", "message"}}
    \cup {[kind |-> "message", content |-> Apology \o <<" ">>]}

NextHistory ==
    \/ BotLoad
    \/ \E e \in HistoryEmails, u \in BOOLEAN, q \in BotQueries,
          c \in HistoryCompletions : AnswerEmail(e, u, q, c)

SpecHistory == InitBot /\ [][NextHistory]_vars

(***************************************************************************)
(* StudentEmailChatbot.upload_document.                                    *)
(***************************************************************************)
\* the documents uploaded, as calls of add_document with its default
\* chunk_size and overlap (lines 254-257): <<content of the file,
\* os.path.basename(filepath), 512, 50>>
UploadCalls == {c \in AddCalls : c[3] = 512 /\ c[4] = 50}

\* what the environment does to one call of upload_document: _read_document
\* raises (the file is missing or cannot be decoded), the provider raises in
\* add_document, open fails in save_database, pickle.dump fails, or nothing
\* fails
UploadEnvs == {"read fails", "encode fails", "open fails", "dump fails", "ok"}

\* the dict save_database pickles (lines 139-143) for a chunk list, a matrix
\* and a provider
ArtifactOf(list, M, m) ==
    [kind |-> "pickle",
     data |-> [chunks |-> list, embeddings_matrix |-> M,
               model_name |-> Dim(m)]]

\* upload_document returning what save_database returned
UploadDocumentChecksSave(c, env) ==
    LET texts == ChunkedCall[c].value
        new   == NewChunksOfCall[model[1], c]
        all   == chunks[1] \o new
        M     == RebuildEmbeddingsMatrix(all, embeddings_matrix[1])
        args  == <<c[2], env>>
    IN  /\ pc[1] = "idle"
        /\ last.op # "init"
        /\ Len(chunks[1]) + Len(texts) <= MaxChunks
        /\ IF env = "read fails"
           THEN /\ NoEncode
                /\ last' = Returned("upload_document", 1, args, FALSE)
                /\ UNCHANGED <<chunks, embeddings_matrix, disk>>
           ELSE IF env = "encode fails"
           THEN /\ encode_calls' = <<texts>>
                /\ last' = Returned("upload_document", 1, args, FALSE)
                /\ UNCHANGED <<chunks, embeddings_matrix, disk>>
           ELSE IF M.raises
           THEN /\ encode_calls' = <<texts>>
                /\ chunks' = [chunks EXCEPT ![1] = all]
                /\ last' = Returned("upload_document", 1, args, FALSE)
                /\ UNCHANGED <<embeddings_matrix, disk>>
           ELSE /\ encode_calls' = <<texts>>
                /\ chunks' = [chunks EXCEPT ![1] = all]
                /\ embeddings_matrix' =
                      [embeddings_matrix EXCEPT ![1] = M.value]
                /\ disk' = CASE env = "open fails" -> disk
                             [] env = "dump fails" -> [kind |-> "partial"]
                             [] OTHER -> ArtifactOf(all, M.value, model[1])
                /\ last' = Returned("upload_document", 1, args, env = "ok")
        /\ UNCHANGED <<model, pc>>
        /\ UNCHANGED <<chunkVars, searchVars, botVars, managerVars>>

\* upload_document (lines 241-269) on the chatbot whose vector_db is store 1:
\* read the file, add_document with the defaults, save_database, return True;
\* any exception of the first two is caught and False returned.  The value
\* save_database returns is not looked at (line 260), and save_database
\* catches its own failures: open failing leaves the file, pickle.dump
\* failing leaves it truncated.
UploadDocument(c, env) ==
    LET texts == ChunkedCall[c].value
        new   == NewChunksOfCall[model[1], c]
        all   == chunks[1] \o new
        M     == RebuildEmbeddingsMatrix(all, embeddings_matrix[1])
        args  == <<c[2], env>>
    IN  /\ pc[1] = "idle"
        /\ last.op # "init"
        /\ Len(chunks[1]) + Len(texts) <= MaxChunks
        /\ IF env = "read fails"
           THEN /\ NoEncode
                /\ last' = Returned("upload_document", 1, args, FALSE)
                /\ UNCHANGED <<chunks, embeddings_matrix, disk>>
           ELSE IF env = "encode fails"
           THEN /\ encode_calls' = <<texts>>
                /\ last' = Returned("upload_document", 1, args, FALSE)
                /\ UNCHANGED <<chunks, embeddings_matrix, disk>>
           ELSE IF M.raises
           THEN /\ encode_calls' = <<texts>>
                /\ chunks' = [chunks EXCEPT ![1] = all]
                /\ last' = Returned("upload_document", 1, args, FALSE)
                /\ UNCHANGED <<embeddings_matrix, disk>>
           ELSE /\ encode_calls' = <<texts>>
                /\ chunks' = [chunks EXCEPT ![1] = all]
                /\ embeddings_matrix' =
                      [embeddings_matrix EXCEPT ![1] = M.value]
                /\ disk' = CASE env = "open fails" -> disk
                             [] env = "dump fails" -> [kind |-> "partial"]
                             [] OTHER -> ArtifactOf(all, M.value, model[1])
                /\ last' = Returned("upload_document", 1, args, TRUE)
        /\ UNCHANGED <<model, pc>>
        /\ UNCHANGED <<chunkVars, searchVars, botVars, managerVars>>

NextUpload ==
    \/ BotLoad
    \/ \E c \in UploadCalls, env \in UploadEnvs : UploadDocument(c, env)

SpecUpload == InitBot /\ [][NextUpload]_vars

(***************************************************************************)
(* VectorManager (vector_operations_tentative.py): loading and unloading.  *)
(***************************************************************************)
\* load_vector_from_list and load_vector_from_numpy are not called without
\* a name once vector_counter has reached MaxCounter
MaxCounter == 2

\* names are strings; "vector_3" is written [base |-> "vector", n |-> 3]
\* and a name without a number, "a", [base |-> "a", n |-> -1], so that
\* f"vector_{n}" is what a caller can also hand over as a name
Name(base, n) == [base |-> base, n |-> n]
ListName(n) == Name("vector", n)
NumpyName(n) == Name("numpy_vector", n)

\* name=None
NoName == Name("", -1)

\* the names callers give
GivenNames == {ListName(0), NumpyName(1), Name("a", -1)}

\* the files: path, os.path.exists, whether the loader of the format reads
\* it, and the vector it holds
VectorFiles ==
    {[dir |-> "d1", stem |-> Name("a", -1), exists |-> TRUE, loads |-> TRUE,
      vector |-> <<3>>],
     [dir |-> "d2", stem |-> Name("a", -1), exists |-> TRUE, loads |-> TRUE,
      vector |-> <<4>>],
     [dir |-> "d1", stem |-> Name("bad", -1), exists |-> TRUE, loads |-> FALSE,
      vector |-> << >>],
     [dir |-> "d1", stem |-> Name("gone", -1), exists |-> FALSE, loads |-> FALSE,
      vector |-> << >>]}

\* self.loaded_vectors[name] = vector
Bind(name, vector) ==
    [k \in DOMAIN loaded_vectors \cup {name} |->
        IF k = name THEN vector ELSE loaded_vectors[k]]

\* everything but the manager and the last call
ManagerFrame ==
    UNCHANGED <<model, chunks, embeddings_matrix, pc, disk, chunkVars,
                searchVars, botVars, providerVars>>

\* load_vector_from_list(data, name) (lines 22-40)
LoadVectorFromList(data, name) ==
    LET given == name # NoName
        id == IF given THEN name ELSE ListName(vector_counter)
    IN  /\ given \/ vector_counter < MaxCounter
        /\ vector_counter' = IF given THEN vector_counter
                             ELSE vector_counter + 1
        /\ loaded_vectors' = Bind(id, data)
        /\ last' = Returned("load_vector_from_list", 0, << >>, id)
        /\ ManagerFrame

\* load_vector_from_numpy(array, name) (lines 84-102)
LoadVectorFromNumpy(array, name) ==
    LET given == name # NoName
        id == IF given THEN name ELSE NumpyName(vector_counter)
    IN  /\ given \/ vector_counter < MaxCounter
        /\ vector_counter' = IF given THEN vector_counter
                             ELSE vector_counter + 1
        /\ loaded_vectors' = Bind(id, array)
        /\ last' = Returned("load_vector_from_numpy", 0, << >>, id)
        /\ ManagerFrame

\* load_vector_from_file(filepath, format_type, name) (lines 42-82): a
\* missing file raises FileNotFoundError, a file the loader cannot read
\* raises RuntimeError; the name defaults to the file's base name without its
\* extension
LoadVectorFromFile(file, name) ==
    LET id == IF name # NoName THEN name ELSE file.stem
    IN  /\ IF file.exists /\ file.loads
           THEN /\ loaded_vectors' = Bind(id, file.vector)
                /\ last' = Returned("load_vector_from_file", 0, << >>, id)
           ELSE /\ UNCHANGED loaded_vectors
                /\ last' = Raised("load_vector_from_file", 0, << >>)
        /\ UNCHANGED vector_counter
        /\ ManagerFrame

\* unload_vector(name) (lines 104-120)
UnloadVector(name) ==
    /\ IF name \in DOMAIN loaded_vectors
       THEN /\ loaded_vectors' =
                  [k \in DOMAIN loaded_vectors \ {name} |-> loaded_vectors[k]]
            /\ last' = Returned("unload_vector", 0, << >>, TRUE)
       ELSE /\ UNCHANGED loaded_vectors
            /\ last' = Returned("unload_vector", 0, << >>, FALSE)
    /\ UNCHANGED vector_counter
    /\ ManagerFrame

\* unload_all_vectors() (lines 122-132)
UnloadAllVectors ==
    /\ loaded_vectors' = NoVectors
    /\ last' = Returned("unload_all_vectors", 0, << >>,
                        Cardinality(DOMAIN loaded_vectors))
    /\ UNCHANGED vector_counter
    /\ ManagerFrame

NextVectors ==
    \/ \E name \in GivenNames \cup {NoName} : LoadVectorFromList(<<1>>, name)
    \/ \E name \in GivenNames \cup {NoName} : LoadVectorFromNumpy(<<2>>, name)
    \/ \E file \in VectorFiles, name \in {NoName, Name("a", -1)} :
          LoadVectorFromFile(file, name)
    \/ \E name \in GivenNames : UnloadVector(name)
    \/ UnloadAllVectors

SpecVectors == Init /\ [][NextVectors]_vars

(***************************************************************************)
(* Claims about the chunker.                                               *)
(***************************************************************************)
\* C4: for every text and every valid pair (chunk_size > 0, 0 <= overlap <
\* chunk_size) the loop of _chunk_text ends: the window start eventually
\* reaches or passes the text length and the function returns.
\* A loop that is back at a window start it has processed never ends.
C4_ChunkLoopTerminates ==
    ValidParams(chunk_size, overlap) => ct_pc # "diverged"

\* C5: every fragment _chunk_text returns is trimmed, longer than 50
\* characters and at most chunk_size characters long.
C5_FragmentsTrimmedAndBounded ==
    ct_pc = "done" =>
        \A i \in 1..Len(ct_result) :
            /\ Strip(ct_result[i]) = ct_result[i]
            /\ Len(ct_result[i]) > 50
            /\ Len(ct_result[i]) <= chunk_size

\* a call that returned fragments, dropped a short one, and trimmed one
C5_Witness ==
    /\ ct_pc = "done"
    /\ ct_result # << >>
    /\ Len(ct_result) < Len(ct_chunks)
    /\ \E k \in ct_seen :
          LET w == ChunkWindow(text, chunk_size, overlap, k)
          IN  w.appended # w.chunk /\ Len(w.appended) > 50

(***************************************************************************)
(* Claims about search_similar.                                            *)
(***************************************************************************)
SearchReturned == last.op = "search_similar" /\ ~last.raised

\* C1: a search returns at most top_k results, every returned score is at
\* least min_similarity, and the scores are non-increasing from the first
\* result to the last.
C1_SearchBounded ==
    SearchReturned =>
        /\ Len(last.ret) <= top_k
        /\ \A i \in 1..Len(last.ret) : last.ret[i].score >= min_similarity
        /\ \A i, j \in 1..Len(last.ret) :
              i < j => last.ret[i].score >= last.ret[j].score

\* a search over more chunks than top_k, one of them below the threshold,
\* that returned top_k results with two different scores
C1_Witness ==
    /\ SearchReturned
    /\ Len(chunks[1]) > top_k
    /\ \E i \in 1..Len(last.args) : last.args[i] < min_similarity
    /\ Len(last.ret) = top_k
    /\ \E i, j \in 1..Len(last.ret) : last.ret[i].score > last.ret[j].score

\* C2: the result is the first top_k entries of the descending ranking of the
\* stored chunks with the entries below min_similarity dropped: each result
\* pairs a stored chunk with its score, no chunk is returned twice, and the
\* scores are those of the first top_k places of the ranking that reach the
\* threshold (0.9, 0.5, 0.2 with top_k 2 and threshold 0.3 give 0.9 then 0.5).
C2_SearchIsFilteredPrefix ==
    SearchReturned /\ chunks[1] # << >> =>
        LET sims == last.args
            n == Len(sims)
            \* the i-th place of the descending ranking holds the score that
            \* fewer than i scores exceed and at least i scores reach
            ranking == [i \in 1..n |->
                          CHOOSE v \in {sims[x] : x \in 1..n} :
                              /\ Cardinality({x \in 1..n : sims[x] > v}) < i
                              /\ Cardinality({x \in 1..n : sims[x] >= v}) >= i]
            prefix == SubSeq(ranking, 1, IF top_k < n THEN top_k ELSE n)
            expected == SelectSeq(prefix, LAMBDA v : v >= min_similarity)
        IN  /\ Len(last.ret) = Len(expected)
            /\ \A i \in 1..Len(expected) :
                  /\ last.ret[i].score = expected[i]
                  /\ last.ret[i].index \in 1..n
                  /\ last.ret[i].score = sims[last.ret[i].index]
                  /\ last.ret[i].chunk = chunks[1][last.ret[i].index]
            /\ \A i, j \in 1..Len(last.ret) :
                  i # j => last.ret[i].index # last.ret[j].index

\* the example: scores 0.9, 0.5 and 0.2, top_k 2, threshold 0.3
C2_Witness ==
    /\ SearchReturned
    /\ Len(last.args) = 3
    /\ {last.args[i] : i \in 1..3} = {9, 5, 2}
    /\ top_k = 2 /\ min_similarity = 3
    /\ Len(last.ret) = 2
    /\ last.ret[1].score = 9 /\ last.ret[2].score = 5

\* C3: among chunks whose scores are equal, the one inserted first is ranked
\* first.
C3_TiesInInsertionOrder ==
    SearchReturned =>
        \A i, j \in 1..Len(last.ret) :
            i < j /\ last.ret[i].score = last.ret[j].score
                => last.ret[i].index < last.ret[j].index

(***************************************************************************)
(* Claims about save_database, load_database and chunk ids.                *)
(***************************************************************************)
\* C6: when save_database of a store has returned True and load_database
\* then reads that artifact into a fresh store with the same provider, the
\* load returns True and the fresh store has the same chunk list (ids,
\* contents, embeddings, order), the same matrix and the same get_stats().
C6_SaveLoadRoundTrip ==
    [][\A s, t \in Stores :
          /\ s # t
          /\ last.op = "save_database" /\ last.store = s /\ last.ret
          /\ disk = Artifact(s)
          /\ chunks[t] = << >> /\ embeddings_matrix[t] = NoMatrix
          /\ model[t] = model[s]
          /\ LoadDatabase(t, TRUE)
          => /\ last'.op = "load_database" /\ last'.ret
             /\ chunks'[t] = chunks[s]
             /\ embeddings_matrix'[t] = embeddings_matrix[s]
             /\ GetStats(t)' = GetStats(s)]_vars

\* a store that was loaded from the artifact another store saved after two
\* add_document calls
C6_Witness ==
    /\ last.op = "load_database" /\ last.ret
    /\ \E s \in Stores :
          /\ s # last.store
          /\ disk = Artifact(s)
          /\ Len(chunks[s]) = 3
          /\ \E i, j \in 1..3 : chunks[s][i].source_file # chunks[s][j].source_file
          /\ chunks[last.store] = chunks[s]
          /\ embeddings_matrix[last.store] = embeddings_matrix[s]
          /\ ~embeddings_matrix[s].none

\* C7: a call of load_database that returns False leaves self.chunks and
\* self.embeddings_matrix of the store as they were before the call.
C7_FailedLoadChangesNothing ==
    [][\A s \in Stores, readable \in BOOLEAN :
          LoadDatabase(s, readable) /\ ~last'.ret
          => /\ chunks'[s] = chunks[s]
             /\ embeddings_matrix'[s] = embeddings_matrix[s]]_vars

\* C8: while a save_database call is running, the file at the destination
\* path is never a partially written artifact: a reader finds the old file
\* or the new one.
C8_SaveAtomicForReaders ==
    (\E s \in Stores : pc[s] = "saving") => disk.kind # "partial"

\* C9: in every store no two chunks share an id.
C9_ChunkIdsUnique ==
    \A s \in Stores :
        \A i, j \in 1..Len(chunks[s]) :
            i # j => chunks[s][i].id # chunks[s][j].id

\* C10: load_database of an artifact whose recorded dimension differs from
\* the dimension of the store's provider returns False and installs neither
\* the artifact's chunks nor its matrix.
C10_DimensionMismatchAborts ==
    [][\A s \in Stores :
          /\ disk.kind = "pickle"
          /\ HasKey(disk.data, "model_name")
          /\ disk.data.model_name # Dim(model[s])
          /\ LoadDatabase(s, TRUE)
          => /\ ~last'.ret
             /\ chunks'[s] = chunks[s]
             /\ embeddings_matrix'[s] = embeddings_matrix[s]]_vars

(***************************************************************************)
(* Claims about the store's invariants and the effects of add_document.    *)
(***************************************************************************)
\* C11: in every store, whatever add_document, save_database and
\* load_database calls led to it, all chunk embeddings have the same
\* dimensionality.
C11_EmbeddingDimensionsUniform ==
    \A s \in Stores :
        \A i, j \in 1..Len(chunks[s]) :
            Len(chunks[s][i].embedding) = Len(chunks[s][j].embedding)

\* C12: add_document only appends: the chunk list before the call is a prefix
\* of the list after it, the new chunks are the fragments of the document in
\* chunking order with chunk_index 0, 1, 2, ..., and a call that returns
\* returns the ids of the appended chunks in that order.
C12_AddDocumentAppendsOnly ==
    [][\A s \in Stores, c \in AddCalls :
          /\ last'.op = "add_document" /\ last'.store = s
          /\ AddDocument(s, c[1], c[2], c[3], c[4])
          => LET before == Len(chunks[s])
                 texts == ChunkedCall[c].value
             IN  /\ Len(chunks'[s]) = before + Len(texts)
                 /\ SubSeq(chunks'[s], 1, before) = chunks[s]
                 /\ \A i \in 1..Len(texts) :
                       /\ chunks'[s][before + i].content = texts[i]
                       /\ chunks'[s][before + i].chunk_index = i - 1
                       /\ chunks'[s][before + i].source_file = c[2]
                 /\ ~last'.raised =>
                       last'.ret = [i \in 1..Len(texts) |->
                                       chunks'[s][before + i].id]]_vars

\* a document of two fragments appended to a store that already held a chunk,
\* with both ids returned
C12_Witness ==
    /\ last.op = "add_document" /\ ~last.raised
    /\ Len(last.ret) = 2
    /\ Len(chunks[last.store]) = 3
    /\ chunks[last.store][2].id = last.ret[1]
    /\ chunks[last.store][3].id = last.ret[2]
    /\ chunks[last.store][3].chunk_index = 1

\* C13: after every add_document call that returns and every load_database
\* call that returns True, the matrix of the store agrees with its chunk
\* list: when the list is not empty the matrix has one row per chunk and row
\* i is the embedding of the i-th chunk.
C13_MatrixAgreesWithChunks ==
    \/ last.op = "add_document" /\ ~last.raised
    \/ last.op = "load_database" /\ last.ret
    => LET s == last.store
       IN  chunks[s] # << >> =>
              /\ ~embeddings_matrix[s].none
              /\ Len(embeddings_matrix[s].rows) = Len(chunks[s])
              /\ \A i \in 1..Len(chunks[s]) :
                    embeddings_matrix[s].rows[i] = chunks[s][i].embedding

(***************************************************************************)
(* Claims about add_document on single documents.                          *)
(***************************************************************************)
\* add_document(OfficeHoursDoc, "office_hours.txt", 512, 50) on an empty store
OfficeHoursStored ==
    /\ chunks[1] = << >>
    /\ last'.op = "add_document"
    /\ AddDocument(1, OfficeHoursDoc, "office_hours.txt", 512, 50)

\* C14 as the specification states it: storing the office-hours sentence
\* with chunk_size 512 and overlap 50 into an empty store discards it:
\* add_document returns no id and get_stats() counts no chunk.
C14_OfficeHoursDiscarded ==
    [][OfficeHoursStored
          => last'.ret = << >> /\ GetStats(1)'.total_chunks = 0]_vars

\* C14: the sentence has 67 characters, more than the 50 the filter asks
\* for, so storing it into an empty store keeps it: add_document returns one
\* id, get_stats() counts one chunk, and the chunk holds the whole sentence.
C14_OfficeHoursKept ==
    [][OfficeHoursStored
          => /\ Len(last'.ret) = 1
             /\ GetStats(1)'.total_chunks = 1
             /\ chunks'[1][1].content = OfficeHoursDoc
             /\ chunks'[1][1].id = last'.ret[1]]_vars

\* the store after the sentence was stored into it when it was empty
C14_Witness ==
    /\ last.op = "add_document" /\ ~last.raised
    /\ last.args = <<"office_hours.txt", 512, 50>>
    /\ Len(chunks[1]) = 1
    /\ Len(chunks[1][1].content) = 67
    /\ chunks[1][1].source_file = "office_hours.txt"

C16_MalformedParametersRejected ==
    [][\A c \in IngestCalls :
          /\ c[4] >= c[3]
          /\ \/ AddDocument(1, c[1], c[2], c[3], c[4])
             \/ AddDocumentDiverges(1, c[1], c[2], c[3], c[4])
          => /\ last'.op = "add_document" /\ last'.raised
             /\ pc'[1] = "idle"
             /\ UNCHANGED <<chunks, embeddings_matrix>>]_vars

(***************************************************************************)
(* Claims about errors and side effects.                                   *)
(***************************************************************************)
\* C17: search_similar on a store that holds no chunks, fresh or loaded from
\* the artifact of an empty store, returns the empty sequence and does not
\* raise.
C17_EmptyStoreSearch ==
    last.op = "search_similar" /\ chunks[last.store] = << >>
        => ~last.raised /\ last.ret = << >>

\* a search on an empty store while the file is the artifact of an empty
\* store: the store holds what load_database installs from it
C17_Witness ==
    /\ last.op = "search_similar" /\ ~last.raised
    /\ chunks[1] = << >> /\ embeddings_matrix[1].none
    /\ disk.kind = "pickle" /\ disk.data.chunks = << >>
    /\ disk = Artifact(1)

\* C18: save_database and load_database never raise: a failure to open, to
\* write, to read or to unpickle, and a missing file, give the return value
\* False; True is returned only when the file holds the pickled store (save)
\* or the store holds the file's chunks and matrix (load).
C18_PersistenceNeverRaises ==
    [][\A s \in Stores, b \in BOOLEAN :
          /\ last'.op = "save_database" /\ ~b /\ SaveOpen(s, b)
                => ~last'.raised /\ ~last'.ret /\ disk' = disk
          /\ last'.op = "save_database" /\ SaveDump(s, b)
                => /\ ~last'.raised /\ last'.ret = b
                   /\ b => disk' = Artifact(s)
          /\ last'.op = "load_database" /\ LoadDatabase(s, b)
                => /\ ~last'.raised /\ last'.ret \in BOOLEAN
                   /\ (disk.kind # "pickle" \/ ~b) => ~last'.ret
                   /\ last'.ret =>
                         /\ chunks'[s] = disk.data.chunks
                         /\ embeddings_matrix'[s] = disk.data.embeddings_matrix
       ]_vars

\* load_database has returned False on a missing file, with chunks in the
\* store
C18_Witness ==
    /\ last.op = "load_database" /\ ~last.raised /\ ~last.ret
    /\ disk.kind = "absent"
    /\ chunks[last.store] # << >>

\* C19: add_document leaves the file as it is, and the file changes only in
\* a step of save_database (or from outside the program).
C19_AddDocumentWritesNothing ==
    [][/\ \A s \in Stores, c \in AddCalls :
             /\ last'.op = "add_document" /\ last'.store = s
             /\ AddDocument(s, c[1], c[2], c[3], c[4])
             => disk' = disk
       /\ disk' # disk =>
             \/ \E s \in Stores, ok \in BOOLEAN :
                   SaveOpen(s, ok) \/ SaveDump(s, ok)
             \/ \E what \in ExternalWrites : ExternalWrite(what)]_vars

\* add_document has returned ids while the file still holds the artifact
\* saved before the call
C19_Witness ==
    /\ last.op = "add_document" /\ ~last.raised
    /\ Len(last.ret) > 0
    /\ disk.kind = "pickle" /\ DOMAIN disk.data = DOMAIN Artifact(1).data
    /\ disk.data.model_name = Dim(model[last.store])
    /\ disk.data.chunks # << >>
    /\ Len(chunks[last.store]) = Len(disk.data.chunks) + Len(last.ret)
    /\ SubSeq(chunks[last.store], 1, Len(disk.data.chunks)) = disk.data.chunks

(***************************************************************************)
(* Claims about the chatbot.                                               *)
(***************************************************************************)
\* search_similar cannot but raise for this call: the question is searched
\* for and the stored rows are not as wide as its embedding
RetrievalFails(email_content, use_context) ==
    /\ use_context /\ QuestionOf[email_content] # << >>
    /\ chunks[1] # << >> /\ ~embeddings_matrix[1].none
    /\ \E i \in 1..Len(embeddings_matrix[1].rows) :
          Len(embeddings_matrix[1].rows[i]) # Dim(model[1])

\* C20: answer_email never leaves with an exception; when retrieval fails or
\* the completion call fails or gives no usable message, it returns the
\* apology string and records nothing in the history.
C20_AnswerEmailNeverRaises ==
    [][\A e \in Emails, u \in BOOLEAN, q \in BotQueries, c \in Completions :
          /\ last'.op = "answer_email" /\ last'.args = <<e, u, c.kind>>
          /\ AnswerEmail(e, u, q, c)
          => /\ ~last'.raised
             /\ (c.kind # "message" \/ RetrievalFails(e, u))
                   => /\ last'.ret = Apology
                      /\ conversation_history' = conversation_history]_vars

\* the completion call would have given a message, retrieval failed on a
\* store loaded from another provider's file, and the apology came back
C20_Witness ==
    /\ last.op = "answer_email" /\ ~last.raised
    /\ last.args[3] = "message"
    /\ RetrievalFails(last.args[1], last.args[2])
    /\ last.ret = Apology

(***************************************************************************)
(* Claims about empty documents, normalization and the chunker's windows.  *)
(***************************************************************************)
\* C21: add_document on an empty or whitespace-only document returns an
\* empty id list and leaves the chunk list and the derived matrix as they
\* were.
C21_BlankDocumentChangesNothing ==
    [][\A s \in Stores :
          /\ last'.op = "add_document" /\ last'.store = s
          /\ AddDocument(s, DocBlank, "blank.txt", 512, 50)
          => /\ ~last'.raised
             /\ last'.ret = << >>
             /\ chunks' = chunks
             /\ embeddings_matrix' = embeddings_matrix]_vars

\* C22: the content of every stored chunk is normalized: it holds no two
\* whitespace characters in a row, and every character of it is a letter, a
\* digit, whitespace or one of . , ! ? ; :
C22_ContentNormalized ==
    \A i \in 1..Len(chunks[1]) :
        LET t == chunks[1][i].content
        IN  /\ \A k \in 1..(Len(t) - 1) : ~(IsSpace(t[k]) /\ IsSpace(t[k + 1]))
            /\ \A k \in 1..Len(t) :
                  \/ t[k] \in WordChars \ {"_"}
                  \/ IsSpace(t[k])
                  \/ IsPunct(t[k])

\* the windows the loop has cut so far, by their starts; the window at a
\* start k >= 0 holds the characters at the 0-based positions k .. end - 1
WindowAt(k) == ChunkWindow(text, chunk_size, overlap, k)
InSomeWindow(p) ==
    \E k \in ct_seen : k >= 0 /\ k <= p /\ p < WindowAt(k).end
Reached ==
    LET ends == {WindowAt(k).end : k \in {j \in ct_seen : j >= 0}}
    IN  IF ends = {} THEN 0
        ELSE Min(Len(text), CHOOSE e \in ends : \A f \in ends : f <= e)

\* C23: the windows leave no gap.  A window starts at or before the adjusted
\* end of the window before it, every character before the furthest end
\* reached lies in a window, and when the function returns every character of
\* the text lies in a window: only trimming and the length filter drop text.
C23_WindowsLeaveNoGap ==
    /\ ct_pc \in {"loop", "done"} /\ ct_seen # {} =>
          \E k \in ct_seen : start = WindowAt(k).next_start
                             /\ start <= WindowAt(k).end
    /\ \A p \in 0..(Reached - 1) : InSomeWindow(p)
    /\ ct_pc = "done" => Reached = Len(text)

\* a call that returned after three windows or more, one of them retracted
\* to a space, with no overlap between the windows
C23_Witness ==
    /\ ct_pc = "done" /\ overlap = 0
    /\ Cardinality(ct_seen) >= 3
    /\ \E k \in ct_seen : WindowAt(k).cut
    /\ \A p \in 0..(Len(text) - 1) : InSomeWindow(p)

\* the characters of `text` at the 0-based positions lo .. hi - 1
Between(lo, hi) == [i \in 1..(hi - lo) |-> text[lo + i]]

\* C24: one iteration of the loop at a start that is a position of the text.
\* When start + chunk_size lies strictly before the end of the text and the
\* last space of the window is at an offset above chunk_size // 2, the
\* fragment is the text up to that space, trimmed, and the next start is
\* start + offset - overlap; otherwise the fragment is the whole window (up to
\* the end of the text), trimmed, and the next start is
\* start + chunk_size - overlap.  A window at a start below 0 holds no text:
\* its fragment is empty and the next start is start + chunk_size - overlap.
C24_RetractionRule ==
    [][ChunkStep =>
          LET n == Len(text)
              raw == start + chunk_size
              offsets == {o \in 0..(chunk_size - 1) :
                             start + o < n /\ text[start + o + 1] = " "}
              retract == /\ raw < n
                         /\ \E o \in offsets : o > chunk_size \div 2
              off == CHOOSE o \in offsets : \A x \in offsets : x <= o
          IN  IF start < 0
              THEN /\ ct_chunks' = Append(ct_chunks, << >>)
                   /\ start' = raw - overlap
              ELSE IF retract
              THEN /\ ct_chunks' =
                        Append(ct_chunks, Strip(Between(start, start + off)))
                   /\ start' = start + off - overlap
              ELSE /\ ct_chunks' =
                        Append(ct_chunks, Strip(Between(start, Min(raw, n))))
                   /\ start' = raw - overlap]_vars

\* a call that returned after a retracted window and after a window that
\* ended before the text did and was kept whole
C24_Witness ==
    /\ ct_pc = "done"
    /\ \E k \in ct_seen : k >= 0 /\ WindowAt(k).cut
    /\ \E k \in ct_seen :
          k >= 0 /\ ~WindowAt(k).cut /\ k + chunk_size < Len(text)
    /\ \E k \in ct_seen : k + chunk_size >= Len(text)

(***************************************************************************)
(* Claims about the embedding provider.                                    *)
(***************************************************************************)
\* C25: a call of add_document calls the embedding provider exactly once,
\* with the whole list of the document's fragments in chunking order, and the
\* k-th vector it returns is the embedding of the k-th chunk appended.
C25_OneBatchedEncodeCall ==
    [][\A c \in IngestCalls :
          /\ last'.op = "add_document" /\ last'.args = <<c[2], c[3], c[4]>>
          /\ AddDocument(1, c[1], c[2], c[3], c[4])
          => LET texts == ChunkedCall[c].value
                 vectors == Encode(model[1], texts)
                 n == Len(chunks[1])
             IN  /\ encode_calls' = <<texts>>
                 /\ Len(chunks'[1]) = n + Len(texts)
                 /\ \A k \in 1..Len(texts) :
                       /\ chunks'[1][n + k].content = texts[k]
                       /\ chunks'[1][n + k].embedding = vectors[k]]_vars

\* a document of two fragments was added with one call of the provider, on
\* a list of two texts
C25_Witness ==
    /\ last.op = "add_document" /\ ~last.raised
    /\ Len(last.ret) = 2
    /\ Len(encode_calls) = 1 /\ Len(encode_calls[1]) = 2
    /\ encode_calls[1][1] # encode_calls[1][2]
    /\ LET n == Len(chunks[1])
       IN  /\ chunks[1][n - 1].content = encode_calls[1][1]
           /\ chunks[1][n].content = encode_calls[1][2]

(***************************************************************************)
(* Claims about the progress of the chunker.                               *)
(***************************************************************************)
\* C26: with 0 <= overlap <= chunk_size // 2 every iteration of the loop
\* moves the window start forward, by chunk_size - overlap when the window is
\* kept and by at least chunk_size // 2 + 1 - overlap when it is retracted; the
\* start is never below 0, the loop does not come back to a start it has
\* processed, and it has made at most len(text) iterations.
C26_ProgressWithSmallOverlap ==
    [][/\ 0 <= overlap /\ overlap <= chunk_size \div 2
       /\ NextChunk
       => /\ ChunkStep =>
               /\ start' > start
               /\ IF WindowAt(start).cut
                  THEN start' >= start + chunk_size \div 2 + 1 - overlap
                  ELSE start' = start + chunk_size - overlap
          /\ start' >= 0
          /\ ct_pc' # "diverged"
          /\ Cardinality(ct_seen') <= Len(text)]_vars

\* a call with overlap = chunk_size // 2 that returned after three windows
\* or more, one of them retracted
C26_Witness ==
    /\ ct_pc = "done"
    /\ overlap > 0 /\ overlap = chunk_size \div 2
    /\ Cardinality(ct_seen) >= 3
    /\ \E k \in ct_seen : WindowAt(k).cut

\* C27: when the embedding provider fails in add_document, the call raises
\* and the store is as before: no chunk was appended and the matrix is the
\* same.
C27_EncodeFailureChangesNothing ==
    [][\A c \in IngestCalls :
          /\ last'.op = "add_document" /\ last'.args = <<c[2], c[3], c[4]>>
          /\ AddDocumentEncodeFails(1, c[1], c[2], c[3], c[4])
          => /\ last'.raised
             /\ chunks' = chunks
             /\ embeddings_matrix' = embeddings_matrix
             /\ pc'[1] = "idle"]_vars

\* the provider failed on a list of fragments while the store held chunks of
\* other documents: it holds them still and none of the failed document
C27_Witness ==
    /\ last.op = "add_document" /\ last.raised
    /\ Len(encode_calls) = 1 /\ Len(encode_calls[1]) >= 1
    /\ chunks[1] # << >> /\ ~embeddings_matrix[1].none
    /\ Len(embeddings_matrix[1].rows) = Len(chunks[1])
    /\ \A i \in 1..Len(chunks[1]) : chunks[1][i].source_file # last.args[1]

(***************************************************************************)
(* Claims about upload_document and the conversation history.              *)
(***************************************************************************)
\* np.vstack would raise on the chunk list with the records of call c
\* appended: two embeddings differ in width
StackFails(c) ==
    LET all == chunks[1] \o NewChunksOfCall[model[1], c]
    IN  \E i, j \in 1..Len(all) :
            Len(all[i].embedding) # Len(all[j].embedding)

\* the file holds a pickled dict whose chunk list is the store's
DiskHoldsStore ==
    /\ disk.kind = "pickle"
    /\ HasKey(disk.data, "chunks")
    /\ disk.data.chunks = chunks[1]

\* C28: upload_document returns True when the file was read and
\* add_document returned although save_database failed: the store then holds
\* the new chunks and the file does not; it returns False exactly when
\* reading or add_document raised.
C28_FailedSaveReportedAsSuccess ==
    [][\A c \in UploadCalls, env \in UploadEnvs :
          /\ last'.op = "upload_document" /\ last'.args = <<c[2], env>>
          /\ UploadDocument(c, env)
          => LET new == NewChunksOfCall[model[1], c]
                 add_raises == env = "encode fails" \/ StackFails(c)
             IN  /\ ~last'.raised
                 /\ last'.ret = FALSE <=> (env = "read fails" \/ add_raises)
                 /\ (env \in {"open fails", "dump fails"} /\ ~add_raises) =>
                       /\ last'.ret = TRUE
                       /\ chunks'[1] = chunks[1] \o new
                       /\ new # << >> => ~DiskHoldsStore']_vars

\* an upload returned True after pickle.dump failed: the store holds the
\* chunks of the document and the file is a truncated one
C28_Witness ==
    /\ last.op = "upload_document" /\ last.ret = TRUE
    /\ last.args[2] = "dump fails"
    /\ Len(encode_calls) = 1 /\ encode_calls[1] # << >>
    /\ chunks[1] # << >>
    /\ chunks[1][Len(chunks[1])].source_file = last.args[1]
    /\ disk.kind = "partial"

\* C29: conversation_history grows by exactly one entry, whose answer is
\* the string returned, in a call of answer_email that returns a generated
\* answer (retrieval and completion succeeded, whatever the text of the
\* completion), and is unchanged in a call that failed and returned the
\* apology string; the entries it held stay as they were; answer_email does
\* not change the chunk store.
C29_HistoryFollowsOutcome ==
    [][\A e \in HistoryEmails, u \in BOOLEAN, q \in BotQueries,
          c \in HistoryCompletions :
          /\ last'.op = "answer_email" /\ last'.args = <<e, u, c.kind>>
          /\ AnswerEmail(e, u, q, c)
          => /\ IF c.kind = "message" /\ ~RetrievalFails(e, u)
                THEN LET n == Len(conversation_history)
                     IN  /\ Len(conversation_history') = n + 1
                         /\ conversation_history'[n + 1].email = e
                         /\ conversation_history'[n + 1].answer = last'.ret
                ELSE /\ conversation_history' = conversation_history
                     /\ last'.ret = Apology
             /\ SubSeq(conversation_history', 1, Len(conversation_history))
                   = conversation_history
             /\ UNCHANGED <<chunks, embeddings_matrix, disk>>]_vars

\* a call whose retrieval and completion succeeded returned the text of the
\* apology, generated by the model, and recorded it, after an earlier entry;
\* the store it searched holds chunks
C29_Witness ==
    /\ last.op = "answer_email" /\ last.ret = Apology
    /\ last.args[3] = "message"
    /\ ~RetrievalFails(last.args[1], last.args[2])
    /\ chunks[1] # << >>
    /\ Len(conversation_history) = 2
    /\ conversation_history[2].answer = Apology
    /\ conversation_history[2].email = last.args[1]
    /\ conversation_history[1].answer # Apology

(***************************************************************************)
(* Claims about VectorManager.                                             *)
(***************************************************************************)
\* C30: a load returns a name under which no vector was loaded: the load
\* replaces no vector of loaded_vectors, whether the name was given by the
\* caller or generated from vector_counter.
C30_LoadReturnsFreshName ==
    [][(/\ last'.op \in {"load_vector_from_list", "load_vector_from_numpy",
                         "load_vector_from_file"}
        /\ ~last'.raised)
       => /\ last'.ret \notin DOMAIN loaded_vectors
          /\ \A k \in DOMAIN loaded_vectors :
                k \in DOMAIN loaded_vectors'
                /\ loaded_vectors'[k] = loaded_vectors[k]]_vars

====
